---- MODULE Spec2Model ----
(***************************************************************************)
(* TSTP Permission Changer (src/main.py): the ownership engine behind the  *)
(* main window.  The model has the filesystem owners, the SQLite table     *)
(* ownership_changes, the main window's lists, labels and buttons, the     *)
(* QThreadPool with its runnables, and the queue of signals that worker    *)
(* threads post to the GUI thread.                                         *)
(*                                                                         *)
(* Threads.  The slots of FileOwnerChanger live in the GUI thread, the     *)
(* workers emit from pool threads, so every signal is a queued call: it    *)
(* runs when the GUI thread is back in its event loop.  The event loop     *)
(* hands out posted calls before the next input event, so a click is       *)
(* handled with an empty queue.  check_ownership_info blocks the GUI       *)
(* thread in waitForDone(): nothing is delivered until it returns.         *)
(***************************************************************************)
EXTENDS Naturals, Integers, Sequences, FiniteSets, TLC

\* ---------------------------------------------------------------- bounds
MaxSel == 2        \* root selections made through the two dialogs
MaxPar == 2        \* QThreadPool.maxThreadCount() of the platform, 1..MaxPar
MaxRuns == 3       \* runs (check, change, revert) started
MaxFaults == 1     \* failures of the OS owner calls and of SQLite
MaxWide == 5       \* files picked in one dialog on the machine with many cores
MaxCores == 5      \* maxThreadCount() of the machine with many cores
ScenarioPaths == 1000   \* input paths of the progress scenario

\* ------------------------------------------------------- program constants
PoolCap == 4               \* min(4, ...) of check_ownership_info
ProgressEvery == 500       \* idx % 500 == 0

\* -------------------------------------------------------------- the inputs
\* Accounts of the machine; current_user is the acting identity.
Users == {"alice", "bob"}
current_user == "alice"
\* What get_owner returns when the query fails.
Unknown == "Unknown"

\* The filesystem tree offered to the dialogs: /a holds /a/d, /a/d holds f.
Dirs == {"/a", "/a/d"}
Files == {"/a/d/f"}
Paths == Dirs \cup Files
SubDirs(p) == IF p = "/a" THEN <<"/a/d">> ELSE <<>>
FilesIn(p) == IF p = "/a/d" THEN <<"/a/d/f">> ELSE <<>>
\* A directory /w of many files, /w/1, /w/2, ..., for the runs that need
\* many chunks or many items.
Digits == <<"0", "1", "2", "3", "4", "5", "6", "7", "8", "9">>
RECURSIVE Decimal(_)
Decimal(k) ==
    IF k < 10 THEN Digits[k + 1]
    ELSE Decimal(k \div 10) \o Digits[(k % 10) + 1]
WideName(k) == "/w/" \o Decimal(k)
WideNames(n) == [k \in 1..n |-> WideName(k)]
WideFiles == {WideName(k) : k \in 1..(ScenarioPaths + MaxWide)}
isfile(p) == p \in Files \cup WideFiles
isdir(p) == p \in Dirs

\* ------------------------------------------------------------------ state
VARIABLES
    owner,            \* filesystem: path -> owning account
    store,            \* table ownership_changes: set of rows
    nextId,           \* AUTOINCREMENT: the id the next insert gets
    maxThreadCount,   \* the platform's thread count
    selected_files,   \* FileOwnerChanger.selected_files
    selected_folders, \* FileOwnerChanger.selected_folders
    all_paths,        \* check_ownership_info's all_paths (last collection)
    ownership_list,   \* the QListWidget's item texts
    labels,           \* changed_label, unchanged_label, errors_label
    progress_bar,
    status_bar,
    report,           \* the counts the last FinalReportDialog was built from
    enabled,          \* the buttons' enabled flags
    mainpc,           \* GUI thread: "idle" (event loop) or "waitForDone"
    pool,             \* thread_pool: runnables started and not yet finished
    queue,            \* signals posted to the GUI thread, oldest first
    runs,             \* runs started so far
    faults,           \* failures injected so far
    run_total,        \* items of the run started last
    emitted,          \* sum of the tallies emitted since the last reset
    restored,         \* ids of rows whose original owner a revert has set
    unreverted,       \* changes made and not yet undone: [path, rid]
    trip,             \* where a change-then-revert round trip stands
    history           \* the run started last, and what the window showed
                      \* of the run before when that run was started

vars == <<owner, store, nextId, maxThreadCount, selected_files,
          selected_folders, all_paths, ownership_list, labels, progress_bar,
          status_bar, report, enabled, mainpc, pool, queue, runs, faults,
          run_total, emitted, restored, unreverted, trip, history>>

fsVars == <<owner, store, nextId>>
selVars == <<selected_files, selected_folders>>
guiVars == <<labels, progress_bar, status_bar, report, enabled>>
ghostVars == <<restored, unreverted, trip, history>>
NoRun == [kind |-> "none", paths |-> <<>>, counters |-> [changed |-> 0, unchanged |-> 0, errors |-> 0]]
NoHistory == [last |-> "none", before |-> NoRun]
NoTrip == [phase |-> "none", B |-> "none"]

\* ---------------------------------------------------------------- helpers
Min(a, b) == IF a <= b THEN a ELSE b
Max(a, b) == IF a >= b THEN a ELSE b
Range(s) == {s[i] : i \in 1..Len(s)}
Zero == [changed |-> 0, unchanged |-> 0, errors |-> 0]
Tally(c, u, e) == [changed |-> c, unchanged |-> u, errors |-> e]
Plus(x, y) == Tally(x.changed + y.changed, x.unchanged + y.unchanged,
                    x.errors + y.errors)
Sum3(x) == x.changed + x.unchanged + x.errors

\* Sequences over S without repetition, of length 1..n.
Arrangements(S, n) ==
    UNION {{s \in [1..k -> S] : \A i, j \in 1..k : s[i] = s[j] => i = j} :
           k \in 1..n}

\* ------------------------------------------------ owner provider (44-84)
\* get_owner: the owner's name; every exception ends in return "Unknown".
get_owner(fs, path, fails) == IF fails THEN Unknown ELSE fs[path]

\* set_owner succeeds only for an existing account and a call the OS
\* accepts; the exception path returns (False, reason) and changes nothing.
set_owner_ok(user, fails) == user \in Users /\ ~fails
\* Mutant: the owner is written although the call failed.
set_owner_always(fs, path, user, ok) == [fs EXCEPT ![path] = user]
set_owner(fs, path, user, ok) ==
    IF ok THEN [fs EXCEPT ![path] = user] ELSE fs

\* ---------------------------------------------------- audit store (109-139)
Row(id, path, original_owner, new_owner) ==
    [id |-> id, path |-> path, original_owner |-> original_owner,
     current_owner |-> new_owner]

\* record_change: INSERT and commit; a failure is logged and swallowed.
\* Mutant: a failed insert rolls the table back to empty.
record_change_drops(path, original_owner, new_owner, fails) ==
    IF fails THEN {}
    ELSE store \cup {Row(nextId, path, original_owner, new_owner)}
\* Mutant: the insert replaces the rows the path already has.
record_change_replaces(path, original_owner, new_owner, fails) ==
    IF fails THEN store
    ELSE {r \in store : r.path # path}
         \cup {Row(nextId, path, original_owner, new_owner)}
record_change(path, original_owner, new_owner, fails) ==
    IF fails THEN store
    ELSE store \cup {Row(nextId, path, original_owner, new_owner)}
\* AUTOINCREMENT hands out the next id when a row is written.
id_after_insert(fails) == IF fails THEN nextId ELSE nextId + 1

\* DELETE FROM ownership_changes WHERE id = ?
\* Mutant: the DELETE has lost its WHERE clause.
delete_row_all(id) == {}
delete_row(id) == {r \in store : r.id # id}

\* get_all_changes: every row; [] when the query fails.
get_all_changes(fails) == IF fails THEN {} ELSE store

\* -------------------------------------------- path collection (716-728)
RECURSIVE Walk(_), WalkEach(_)
\* os.walk(path), top down: per directory its dirs, then its files.
Walk(p) == SubDirs(p) \o FilesIn(p) \o WalkEach(SubDirs(p))
WalkEach(ds) ==
    IF ds = <<>> THEN <<>> ELSE Walk(Head(ds)) \o WalkEach(Tail(ds))

\* all_paths: the entries of each selected path, in the order of selection
\* (the list is taken by halves so that long selections stay shallow).
CollectOne(path) ==
    IF isfile(path) THEN <<path>>
    ELSE IF isdir(path) THEN Walk(path)
    ELSE <<>>
RECURSIVE Collect(_)
Collect(selected_paths) ==
    LET n == Len(selected_paths)
        half == n \div 2
    IN  IF n = 0 THEN <<>>
        ELSE IF n = 1 THEN CollectOne(selected_paths[1])
        ELSE Collect(SubSeq(selected_paths, 1, half))
                \o Collect(SubSeq(selected_paths, half + 1, n))

\* ---------------------------------------------------- chunking (741-744)
NumThreads == Min(PoolCap, maxThreadCount)
ChunkSize(n) == Max(1, n \div NumThreads)
\* [all_paths[i:i + chunk_size] for i in range(0, len(all_paths), chunk_size)]
Chunks(paths) ==
    LET n == Len(paths)
        cs == ChunkSize(n)
        count == (n + cs - 1) \div cs
    IN  [k \in 1..count |-> SubSeq(paths, (k - 1) * cs + 1, Min(k * cs, n))]

\* ------------------------------------------------------ progress (185-188)
\* A signal of WorkerSignals (142-151) on its way to the GUI thread.
Msg(type, value, tally, text) ==
    [type |-> type, value |-> value, tally |-> tally, text |-> text]
EmitsProgress(idx, total) == idx % ProgressEvery = 0 \/ idx = total
\* int((idx / total) * 100)
Percent(idx, total) == (idx * 100) \div total
ProgressMsgs(idx, total) ==
    IF EmitsProgress(idx, total)
    THEN <<Msg("progress_update", Percent(idx, total), Zero, "none")>>
    ELSE <<>>

\* The machine the window is opened on: a new database over files of bob,
\* or the database an earlier session left after it changed /a/d/f.
Databases ==
    {[owner |-> [p \in Paths |-> "bob"], store |-> {}, nextId |-> 1],
     [owner |-> [p \in Paths |-> IF p = "/a/d/f" THEN "alice" ELSE "bob"],
      store |-> {Row(1, "/a/d/f", "bob", "alice")}, nextId |-> 2]}

\* --------------------------------------------------------------- buttons
AllButtons(b) == [file |-> b, folder |-> b, save |-> b, check |-> b,
                  change |-> b, revert |-> b]
\* button_checker (620-631)
button_checker(en, files, folders) ==
    LET has_selections == files # <<>> \/ folders # <<>>
    IN  [en EXCEPT !.change = has_selections, !.save = has_selections,
                   !.check = has_selections]

\* ------------------------------------------------------------------ Init
\* After FileOwnerChanger.__init__ (410-425) and init_ui (427-537): the
\* table as initialize_database finds or creates it, nothing selected, every
\* button enabled but the three that button_checker turns off.
Init ==
    /\ \E db \in Databases :
          /\ owner = db.owner
          /\ store = db.store
          /\ nextId = db.nextId
          /\ unreverted = {[path |-> r.path, rid |-> r.id] : r \in db.store}
    /\ maxThreadCount \in 1..MaxPar
    /\ selected_files = <<>>
    /\ selected_folders = <<>>
    /\ all_paths = <<>>
    /\ ownership_list = <<>>
    /\ labels = Zero
    /\ progress_bar = 0
    /\ status_bar = "Ready"
    /\ report = Zero
    /\ enabled = button_checker(AllButtons(TRUE), <<>>, <<>>)
    /\ mainpc = "idle"
    /\ pool = <<>>
    /\ queue = <<>>
    /\ runs = 0
    /\ faults = 0
    /\ run_total = 0
    /\ emitted = Zero
    /\ restored = {}
    /\ history = NoHistory
    /\ trip = NoTrip

\* ------------------------------------------------------------- selection
Idle == mainpc = "idle" /\ queue = <<>>
SelCount == Len(selected_files) + Len(selected_folders)
FaultsLeft == MaxFaults - faults
Count(b) == IF b THEN 1 ELSE 0

\* select_files (572-582): the dialog's files are appended as they come.
select_files ==
    /\ Idle /\ enabled.file
    /\ SelCount < MaxSel
    /\ \E files \in Arrangements(Files, MaxSel - SelCount) :
          /\ selected_files' = selected_files \o files
          /\ enabled' = [button_checker(enabled, selected_files', selected_folders)
                           EXCEPT !.revert = FALSE]
    /\ UNCHANGED <<fsVars, maxThreadCount, selected_folders, all_paths,
                   ownership_list, labels, progress_bar, status_bar, report,
                   mainpc, pool, queue, runs, faults, run_total,
                   emitted, ghostVars>>

\* if folder not in self.selected_folders: append (589-590)
RECURSIVE AddFolders(_, _)
AddFolders(folders, picks) ==
    IF picks = <<>> THEN folders
    ELSE AddFolders(IF Head(picks) \in Range(folders) THEN folders
                    ELSE Append(folders, Head(picks)), Tail(picks))

\* select_folders (584-608): the dialog is shown again while the user says
\* Yes; answering No runs button_checker, closing a dialog just leaves.
select_folders ==
    /\ Idle /\ enabled.folder
    /\ SelCount < MaxSel
    /\ \E k \in 1..(MaxSel - SelCount) : \E picks \in [1..k -> Dirs] :
       \E answered_no \in BOOLEAN :
          /\ selected_folders' = AddFolders(selected_folders, picks)
          /\ enabled' = IF answered_no
                        THEN [button_checker(enabled, selected_files,
                                             selected_folders')
                                EXCEPT !.revert = FALSE]
                        ELSE enabled
    /\ UNCHANGED <<fsVars, maxThreadCount, selected_files, all_paths,
                   ownership_list, labels, progress_bar, status_bar, report,
                   mainpc, pool, queue, runs, faults, run_total,
                   emitted, ghostVars>>

\* ------------------------------------------------------------ check run
\* A run of this kind starts: what the window shows now is the result of the
\* run started before it.
Started(kind) ==
    [last |-> kind,
     before |-> [kind |-> history.last, paths |-> all_paths,
                 counters |-> labels]]

\* A runnable: its arguments and the locals of run().
Worker(kind, chunk, items) ==
    [run |-> runs + 1, chunk |-> chunk, kind |-> kind, items |-> items,
     idx |-> 0, tally |-> Zero, success |-> FALSE, seen |-> "none",
     errlog |-> {}, rowcount |-> 0]
PathItems(paths) == [i \in 1..Len(paths) |-> Row(0, paths[i], "none", "none")]

\* One OwnershipCheckWorker per chunk, started in order (746-748).
CheckWorkers(paths) ==
    LET chunks == Chunks(paths)
    IN  [k \in 1..Len(chunks) |-> Worker("check", k, PathItems(chunks[k]))]

\* check_ownership_info up to waitForDone() (689-751).
check_ownership_info ==
    /\ Idle /\ enabled.check
    /\ runs < MaxRuns
    /\ selected_files \o selected_folders # <<>>
    /\ enabled' = AllButtons(FALSE)
    /\ progress_bar' = 0
    /\ status_bar' = "Total items to process"
    /\ labels' = Zero
    /\ ownership_list' = <<>>
    /\ all_paths' = Collect(selected_files \o selected_folders)
    /\ pool' = pool \o CheckWorkers(all_paths')
    /\ mainpc' = "waitForDone"
    /\ runs' = runs + 1
    /\ run_total' = Len(all_paths')
    /\ emitted' = Zero
    /\ history' = Started("check")
    /\ UNCHANGED <<fsVars, maxThreadCount, selVars, report, queue, faults,
                   restored, unreverted, trip>>

\* check_ownership_info after waitForDone() (753-763); the items' ticks are
\* set by populate_ownership_list and by the user, and read at the click on
\* Change.
check_ownership_info_return ==
    /\ mainpc = "waitForDone"
    /\ pool = <<>>
    /\ ownership_list' = all_paths
    /\ status_bar' = "Ownership check completed."
    /\ enabled' = button_checker([AllButtons(TRUE) EXCEPT !.revert = FALSE],
                                 selected_files, selected_folders)
    /\ mainpc' = "idle"
    /\ UNCHANGED <<fsVars, maxThreadCount, selVars, all_paths, labels,
                   progress_bar, report, pool, queue, runs, faults,
                   run_total, emitted, ghostVars>>

\* ----------------------------------------------------------- the workers
\* The pool runs at most maxThreadCount runnables, oldest first.
Running == 1..Min(Len(pool), maxThreadCount)
\* errlog: what the item's calls wrote with logging.error, as <<idx, call>>.
Failed(idx, call, fails) == IF fails THEN {<<idx, call>>} ELSE {}
Step(w, idx, tally, success, seen, errs) ==
    [w EXCEPT !.idx = idx, !.tally = tally, !.success = success,
              !.seen = seen, !.errlog = @ \cup errs]

\* OwnershipCheckWorker.run, one item (171-188).  get_owner raises nothing,
\* so the except branch is never entered; both branches of the comparison
\* count the item as unchanged.
check_tally(t, current_owner) ==
    IF current_owner # current_user
    THEN [t EXCEPT !.unchanged = @ + 1]
    ELSE [t EXCEPT !.unchanged = @ + 1]

OwnershipCheckWorker_item(i) ==
    LET w == pool[i]
        idx == w.idx + 1
        total == Len(w.items)
    IN  /\ w.kind = "check" /\ w.idx < total
        /\ \E qfail \in BOOLEAN :
              /\ Count(qfail) <= FaultsLeft
              /\ LET current_owner == get_owner(owner, w.items[idx].path, qfail)
                 IN  pool' = [pool EXCEPT ![i] =
                               Step(w, idx, check_tally(w.tally, current_owner),
                                    FALSE, current_owner,
                                    Failed(idx, "get_owner", qfail))]
              /\ faults' = faults + Count(qfail)
        /\ queue' = queue \o ProgressMsgs(idx, total)
        /\ UNCHANGED <<fsVars, maxThreadCount, selVars, all_paths,
                       ownership_list, guiVars, mainpc, runs, run_total,
                       emitted, ghostVars>>

\* OwnershipChangeWorker.run, one item (214-235).
change_tally(t, success) ==
    IF success THEN [t EXCEPT !.changed = @ + 1]
    ELSE [t EXCEPT !.errors = @ + 1]

OwnershipChangeWorker_item(i) ==
    LET w == pool[i]
        idx == w.idx + 1
        total == Len(w.items)
        item == w.items[idx]
    IN  /\ w.kind = "change" /\ w.idx < total
        /\ \E sfail, qfail, ifail \in BOOLEAN :
              /\ Count(sfail) + Count(qfail) + Count(ifail) <= FaultsLeft
              /\ sfail => ~qfail /\ ~ifail
              /\ LET success == set_owner_ok(current_user, sfail)
                     fs == set_owner(owner, item.path, current_user, success)
                     new_owner == get_owner(fs, item.path, qfail)
                 IN  /\ owner' = fs
                     /\ store' = IF success
                                 THEN record_change(item.path, item.original_owner,
                                                    new_owner, ifail)
                                 ELSE store
                     /\ nextId' = IF success THEN id_after_insert(ifail)
                                  ELSE nextId
                     /\ pool' = [pool EXCEPT ![i] =
                                   Step(w, idx, change_tally(w.tally, success),
                                        success,
                                        IF success THEN new_owner ELSE "none",
                                        Failed(idx, "set_owner", ~success)
                                        \cup Failed(idx, "get_owner", qfail)
                                        \cup Failed(idx, "record_change", ifail))]
                     /\ unreverted' =
                          IF success
                          THEN unreverted \cup
                               {[path |-> item.path,
                                 rid |-> IF ifail THEN 0 ELSE nextId]}
                          ELSE unreverted
              /\ faults' = faults + Count(sfail) + Count(qfail) + Count(ifail)
        /\ queue' = queue \o ProgressMsgs(idx, total)
        /\ UNCHANGED <<maxThreadCount, selVars, all_paths, ownership_list,
                       guiVars, mainpc, runs, run_total, emitted, restored,
                       trip, history>>

\* RevertOwnershipWorker.run, one item (261-286).  A failing DELETE raises
\* into the except branch: the owner is already set, the item is an error.
\* Mutant: a failed revert is counted as changed.
revert_tally_miscount(t, success, deleted) == [t EXCEPT !.changed = @ + 1]
\* Mutant: the row is kept after a successful revert.
revert_store_keeps(record, success, deleted) == store
revert_tally(t, success, deleted) ==
    IF success /\ deleted THEN [t EXCEPT !.changed = @ + 1]
    ELSE [t EXCEPT !.errors = @ + 1]
\* The rows the DELETE of this item removed (the cursor's rowcount).
rows_deleted(record, success, deleted) ==
    IF success /\ deleted
    THEN Cardinality({r \in store : r.id = record.id})
    ELSE 0
revert_store(record, success, deleted) ==
    IF success /\ deleted THEN delete_row(record.id) ELSE store

RevertOwnershipWorker_item(i) ==
    LET w == pool[i]
        idx == w.idx + 1
        total == Len(w.items)
        record == w.items[idx]
    IN  /\ w.kind = "revert" /\ w.idx < total
        /\ \E sfail, dfail \in BOOLEAN :
              /\ Count(sfail) + Count(dfail) <= FaultsLeft
              /\ dfail => set_owner_ok(record.original_owner, sfail)
              /\ LET success == set_owner_ok(record.original_owner, sfail)
                     deleted == ~dfail
                 IN  /\ owner' = set_owner(owner, record.path,
                                           record.original_owner, success)
                     /\ store' = revert_store(record, success, deleted)
                     /\ pool' = [pool EXCEPT ![i] =
                                   [Step(w, idx, revert_tally(w.tally, success,
                                                              deleted),
                                         success, "none",
                                         Failed(idx, "set_owner", ~success)
                                         \cup Failed(idx, "delete", dfail))
                                      EXCEPT !.rowcount =
                                         rows_deleted(record, success, deleted)]]
                     /\ restored' = IF success THEN restored \cup {record.id}
                                    ELSE restored
                     /\ unreverted' =
                          IF success /\ deleted
                          THEN unreverted \ {[path |-> record.path,
                                              rid |-> record.id]}
                          ELSE unreverted
              /\ faults' = faults + Count(sfail) + Count(dfail)
        /\ queue' = queue \o ProgressMsgs(idx, total)
        /\ UNCHANGED <<nextId, maxThreadCount, selVars, all_paths,
                       ownership_list, guiVars, mainpc, runs, run_total,
                       emitted, trip, history>>

\* The end of a worker's run (190-191, 237-239, 288-290): counters, status
\* and, for change and revert, ownership_change_finished.
FinishMsgs(kind, tally) ==
    <<Msg("counters_update", 0, tally, "none")>> \o
    (IF kind = "check"
     THEN <<Msg("status_update", 0, Zero, "Ownership check completed.")>>
     ELSE IF kind = "change"
     THEN <<Msg("status_update", 0, Zero, "Ownership change process completed."),
            Msg("ownership_change_finished", 0, Zero, "none")>>
     ELSE <<Msg("status_update", 0, Zero, "Reversion process completed."),
            Msg("ownership_change_finished", 0, Zero, "none")>>)
Without(s, i) == SubSeq(s, 1, i - 1) \o SubSeq(s, i + 1, Len(s))

worker_finish(i) ==
    LET w == pool[i]
    IN  /\ w.idx = Len(w.items)
        /\ queue' = queue \o FinishMsgs(w.kind, w.tally)
        /\ pool' = Without(pool, i)
        /\ emitted' = Plus(emitted, w.tally)
        /\ UNCHANGED <<fsVars, maxThreadCount, selVars, all_paths,
                       ownership_list, guiVars, mainpc, runs, faults,
                       run_total, ghostVars>>

\* The outer except of run() (192-194, 240-242, 291-293): an exception that
\* is raised in the loop outside the per-item try, or inside its handler,
\* ends the loop; the worker emits error_occurred and nothing else.
ErrorMsg(kind) ==
    Msg("error_occurred", 0, Zero,
        IF kind = "check" THEN "Error in ownership check"
        ELSE IF kind = "change" THEN "Error in ownership change"
        ELSE "Error in reverting ownership")

worker_abort(i) ==
    LET w == pool[i]
    IN  /\ w.idx < Len(w.items)
        /\ FaultsLeft >= 1
        /\ faults' = faults + 1
        /\ queue' = queue \o <<ErrorMsg(w.kind)>>
        /\ pool' = Without(pool, i)
        /\ UNCHANGED <<fsVars, maxThreadCount, selVars, all_paths,
                       ownership_list, guiVars, mainpc, runs, run_total,
                       emitted, ghostVars>>

\* ---------------------------------------------------- the round trip
\* A round trip starts with a change run that finds the table empty, no
\* other run in progress, and distinct paths owned by one account B; it goes
\* on with a revert run over every row, again with nothing else running.
Distinct(items) ==
    \A i, j \in 1..Len(items) : items[i].path = items[j].path => i = j
TripAtChange(items) ==
    IF /\ store = {} /\ pool = <<>> /\ Distinct(items)
       /\ items[1].original_owner \in Users
       /\ \A j \in 1..Len(items) :
             items[j].original_owner = items[1].original_owner
    THEN [phase |-> "change", B |-> items[1].original_owner]
    ELSE [phase |-> "off", B |-> "none"]
TripAtRevert(records) ==
    IF trip.phase = "change" /\ pool = <<>> /\ Range(records) = store
    THEN [phase |-> "revert", B |-> trip.B]
    ELSE [phase |-> "off", B |-> "none"]

\* ------------------------------------------------------- the GUI's slots
\* update_progress (890-897)
update_progress ==
    /\ mainpc = "idle" /\ queue # <<>>
    /\ Head(queue).type = "progress_update"
    /\ progress_bar' = Head(queue).value
    /\ queue' = Tail(queue)
    /\ UNCHANGED <<fsVars, maxThreadCount, selVars, all_paths, ownership_list,
                   labels, status_bar, report, enabled, mainpc, pool, runs,
                   faults, run_total, emitted, ghostVars>>

\* update_counters (899-908): the three labels take the signal's values.
counters_after(shown, tally) == tally

update_counters ==
    /\ mainpc = "idle" /\ queue # <<>>
    /\ Head(queue).type = "counters_update"
    /\ labels' = counters_after(labels, Head(queue).tally)
    /\ queue' = Tail(queue)
    /\ UNCHANGED <<fsVars, maxThreadCount, selVars, all_paths, ownership_list,
                   progress_bar, status_bar, report, enabled, mainpc, pool,
                   runs, faults, run_total, emitted, ghostVars>>

\* update_status (910-917)
update_status ==
    /\ mainpc = "idle" /\ queue # <<>>
    /\ Head(queue).type = "status_update"
    /\ status_bar' = Head(queue).text
    /\ queue' = Tail(queue)
    /\ UNCHANGED <<fsVars, maxThreadCount, selVars, all_paths, ownership_list,
                   labels, progress_bar, report, enabled, mainpc, pool, runs,
                   faults, run_total, emitted, ghostVars>>

\* handle_error (919-924): the message is logged and shown in a warning
\* box; no widget of the window is touched.
handle_error ==
    /\ mainpc = "idle" /\ queue # <<>>
    /\ Head(queue).type = "error_occurred"
    /\ queue' = Tail(queue)
    /\ UNCHANGED <<fsVars, maxThreadCount, selVars, all_paths, ownership_list,
                   guiVars, mainpc, pool, runs, faults, run_total, emitted,
                   ghostVars>>

\* show_final_report (860-888): the report is read back from the labels,
\* then every button is enabled.
show_final_report ==
    /\ mainpc = "idle" /\ queue # <<>>
    /\ Head(queue).type = "ownership_change_finished"
    /\ report' = labels
    /\ enabled' = AllButtons(TRUE)
    /\ queue' = Tail(queue)
    /\ UNCHANGED <<fsVars, maxThreadCount, selVars, all_paths, ownership_list,
                   labels, progress_bar, status_bar, mainpc, pool, runs,
                   faults, run_total, emitted, ghostVars>>

\* ----------------------------------------------------------- change run
\* selected_items (798-805): per ticked item its path and get_owner(path).
RECURSIVE Gather(_, _, _, _)
Gather(list, ticked, qfails, i) ==
    IF i > Len(list) THEN <<>>
    ELSE (IF i \in ticked
          THEN <<Row(0, list[i], get_owner(owner, list[i], i \in qfails),
                     "none")>>
          ELSE <<>>) \o Gather(list, ticked, qfails, i + 1)

\* change_permissions (793-858) with the user answering Yes; no ticked item
\* or the answer No returns without a change.  After the worker is started
\* button_checker runs.
change_permissions ==
    /\ Idle /\ enabled.change
    /\ runs < MaxRuns
    /\ \E ticked \in SUBSET (1..Len(ownership_list)) :
       \E qfails \in SUBSET ticked :
          /\ ticked # {}
          /\ Cardinality(qfails) <= FaultsLeft
          /\ LET selected_items == Gather(ownership_list, ticked, qfails, 1)
             IN  /\ pool' = Append(pool, Worker("change", 1, selected_items))
                 /\ run_total' = Len(selected_items)
                 /\ trip' = TripAtChange(selected_items)
          /\ faults' = faults + Cardinality(qfails)
    /\ enabled' = button_checker(AllButtons(FALSE), selected_files,
                                 selected_folders)
    /\ progress_bar' = 0
    /\ status_bar' = "Starting ownership change..."
    /\ labels' = Zero
    /\ runs' = runs + 1
    /\ emitted' = Zero
    /\ history' = Started("change")
    /\ UNCHANGED <<fsVars, maxThreadCount, selVars, all_paths, ownership_list,
                   report, mainpc, queue, restored, unreverted>>

\* ----------------------------------------------------------- revert run
\* initiate_revert_changes (926-971): the dialog offers every row; the rows
\* the user selects go to one RevertOwnershipWorker.  No row, or no
\* selection, returns without a change.
initiate_revert_changes ==
    /\ Idle /\ enabled.revert
    /\ runs < MaxRuns
    /\ \E gfail \in BOOLEAN :
          /\ Count(gfail) <= FaultsLeft
          /\ faults' = faults + Count(gfail)
          /\ LET records == get_all_changes(gfail)
             IN  IF records = {}
                 THEN UNCHANGED <<labels, progress_bar, status_bar, enabled,
                                  pool, runs, run_total, emitted, trip,
                                  history>>
                 ELSE \E selected_records \in
                          Arrangements(records, Cardinality(records)) :
                        /\ pool' = Append(pool, Worker("revert", 1,
                                                       selected_records))
                        /\ run_total' = Len(selected_records)
                        /\ trip' = TripAtRevert(selected_records)
                        /\ enabled' = AllButtons(FALSE)
                        /\ progress_bar' = 0
                        /\ status_bar' = "Starting reversion of ownership changes..."
                        /\ labels' = Zero
                        /\ runs' = runs + 1
                        /\ emitted' = Zero
                        /\ history' = Started("revert")
    /\ UNCHANGED <<fsVars, maxThreadCount, selVars, all_paths, ownership_list,
                   report, mainpc, queue, restored, unreverted>>

\* ------------------------------------------------------------------ Next
Next ==
    \/ select_files
    \/ select_folders
    \/ check_ownership_info
    \/ check_ownership_info_return
    \/ change_permissions
    \/ initiate_revert_changes
    \/ \E i \in Running : OwnershipCheckWorker_item(i)
    \/ \E i \in Running : OwnershipChangeWorker_item(i)
    \/ \E i \in Running : RevertOwnershipWorker_item(i)
    \/ \E i \in Running : worker_finish(i)
    \/ \E i \in Running : worker_abort(i)
    \/ update_progress
    \/ update_counters
    \/ update_status
    \/ handle_error
    \/ show_final_report

Spec == Init /\ [][Next]_vars

\* ------------------------------------------------- the scheduler alone
\* The window has just been opened on a new database and select_files has
\* returned files of /w, all owned by bob, on a machine of so many threads;
\* so much of the budgets of runs and of failures is spent.
Opened(files, threads, spent_runs, spent_faults) ==
    /\ owner = [p \in Paths \cup Range(files) |-> "bob"]
    /\ store = {}
    /\ nextId = 1
    /\ unreverted = {}
    /\ maxThreadCount = threads
    /\ selected_files = files
    /\ selected_folders = <<>>
    /\ all_paths = <<>>
    /\ ownership_list = <<>>
    /\ labels = Zero
    /\ progress_bar = 0
    /\ status_bar = "Ready"
    /\ report = Zero
    /\ enabled = [button_checker(AllButtons(TRUE), files, <<>>)
                    EXCEPT !.revert = FALSE]
    /\ mainpc = "idle"
    /\ pool = <<>>
    /\ queue = <<>>
    /\ runs = spent_runs
    /\ faults = spent_faults
    /\ run_total = 0
    /\ emitted = Zero
    /\ restored = {}
    /\ history = NoHistory
    /\ trip = NoTrip

\* Check runs over up to MaxWide files on a machine of up to MaxCores
\* threads: the user starts check runs and nothing else.
InitSched ==
    \E n \in 1..MaxWide : \E threads \in 1..MaxCores :
       Opened(WideNames(n), threads, 0, 0)

NextSched ==
    \/ check_ownership_info
    \/ check_ownership_info_return
    \/ \E i \in Running : OwnershipCheckWorker_item(i)
    \/ \E i \in Running : worker_finish(i)
    \/ update_progress
    \/ update_counters
    \/ update_status

SpecSched == InitSched /\ [][NextSched]_vars

\* One check run over the scenario's ScenarioPaths files in which no call
\* fails.
InitScenario ==
    \E threads \in 1..MaxPar :
       Opened(WideNames(ScenarioPaths), threads, MaxRuns - 1, MaxFaults)
SpecScenario == InitScenario /\ [][NextSched]_vars

\* ------------------------------------------------- a table that moved on
\* The table ownership_changes.db is a file that every instance of the
\* program in the directory opens.  Here the revert dialog has listed the
\* rows of two earlier changes, the user has selected some and the
\* RevertOwnershipWorker is started; since the dialog's query another
\* instance may have reverted, and so deleted, any of the rows.
StaleRows == {Row(1, "/a/d/f", "bob", "alice"), Row(2, "/a/d", "bob", "alice")}
InitStale ==
    \E selected_records \in Arrangements(StaleRows, Cardinality(StaleRows)) :
    \E left \in SUBSET StaleRows :
       /\ owner = [p \in Paths |->
                     IF \E r \in left : r.path = p THEN "alice" ELSE "bob"]
       /\ store = left
       /\ nextId = Cardinality(StaleRows) + 1
       /\ unreverted = {[path |-> r.path, rid |-> r.id] : r \in left}
       /\ maxThreadCount \in 1..MaxPar
       /\ selected_files = <<>>
       /\ selected_folders = <<>>
       /\ all_paths = <<>>
       /\ ownership_list = <<>>
       /\ labels = Zero
       /\ progress_bar = 0
       /\ status_bar = "Starting reversion of ownership changes..."
       /\ report = Zero
       /\ enabled = AllButtons(FALSE)
       /\ mainpc = "idle"
       /\ runs = 1
       /\ pool = <<[Worker("revert", 1, selected_records) EXCEPT !.run = runs]>>
       /\ queue = <<>>
       /\ faults = 0
       /\ run_total = Len(selected_records)
       /\ emitted = Zero
       /\ restored = {}
       /\ trip = [phase |-> "off", B |-> "none"]
       /\ history = [last |-> "revert", before |-> NoRun]

NextStale ==
    \/ \E i \in Running : RevertOwnershipWorker_item(i)
    \/ \E i \in Running : worker_finish(i)
    \/ \E i \in Running : worker_abort(i)
    \/ update_progress
    \/ update_counters
    \/ update_status
    \/ handle_error
    \/ show_final_report

SpecStale == InitStale /\ [][NextStale]_vars

\* ------------------------------------------------- runs under scheduling
\* The window is open with files selected; the user may start check, change
\* and revert runs.  The thread pool runs every runnable it has started and
\* the event loop delivers every queued signal, so each step of a worker and
\* each slot is taken if it stays possible; nothing makes the user click and
\* nothing makes a call fail.
InitLive ==
    \E n \in 1..MaxSel : \E threads \in 1..MaxPar :
       Opened(WideNames(n), threads, 0, 0)

NextLive ==
    \/ check_ownership_info
    \/ check_ownership_info_return
    \/ change_permissions
    \/ initiate_revert_changes
    \/ \E i \in Running : OwnershipCheckWorker_item(i)
    \/ \E i \in Running : OwnershipChangeWorker_item(i)
    \/ \E i \in Running : RevertOwnershipWorker_item(i)
    \/ \E i \in Running : worker_finish(i)
    \/ \E i \in Running : worker_abort(i)
    \/ update_progress
    \/ update_counters
    \/ update_status
    \/ handle_error
    \/ show_final_report

Scheduling ==
    /\ WF_vars(check_ownership_info_return)
    /\ WF_vars(\E i \in Running : OwnershipCheckWorker_item(i))
    /\ WF_vars(\E i \in Running : OwnershipChangeWorker_item(i))
    /\ WF_vars(\E i \in Running : RevertOwnershipWorker_item(i))
    /\ WF_vars(\E i \in Running : worker_finish(i))
    /\ WF_vars(update_progress)
    /\ WF_vars(update_counters)
    /\ WF_vars(update_status)
    /\ WF_vars(handle_error)
    /\ WF_vars(show_final_report)

SpecLive == InitLive /\ [][NextLive]_vars /\ Scheduling

\* ================================================================ claims
\* Between runs: the GUI thread is in its event loop, no runnable is left in
\* the pool and every posted signal has been delivered.
Quiescent == mainpc = "idle" /\ pool = <<>> /\ queue = <<>>

\* A worker of the pool takes one item in this step.
ItemStep(i) ==
    /\ Len(pool') = Len(pool)
    /\ pool'[i].idx = pool[i].idx + 1
\* The item worker i takes in this step.
ItemOf(i) == pool[i].items[pool[i].idx + 1]
\* The items a worker has counted as changed: no logged failure.
Counted(w) ==
    {j \in 1..w.idx : <<j, "set_owner">> \notin w.errlog
                      /\ <<j, "delete">> \notin w.errlog}
LoopDone(w) == w.idx = Len(w.items)

\* C1: after a completed run over N items the run's counters satisfy
\* changed + unchanged + errors = N, also for a check run split into chunks.
C1_CountersSumToTotal ==
    (Quiescent /\ runs > 0) => Sum3(labels) = run_total

\* C2: when a run is over, each counter is the sum of that counter over the
\* tallies the run's workers emitted: no chunk's tally is lost.
C2_CountersAreSumOfTallies ==
    (Quiescent /\ runs > 0) => labels = emitted

\* C10: the path sequence handed to the workers holds no path twice.
C10_NoDuplicatePaths ==
    \A i, j \in 1..Len(all_paths) : all_paths[i] = all_paths[j] => i = j

\* C3: every item of a change run whose set-owner succeeds leaves exactly
\* one new row for its path, with the item's original_owner and with the
\* acting identity as current_owner, also when the re-query or the insert
\* fails.
C3_ChangedItemRecorded ==
    [][\A i \in 1..Len(pool) :
          (ItemStep(i) /\ pool[i].kind = "change" /\ pool'[i].success) =>
             \E r \in store' \ store :
                /\ store' \ store = {r}
                /\ r.path = ItemOf(i).path
                /\ r.original_owner = ItemOf(i).original_owner
                /\ r.current_owner = current_user]_vars

\* C4 as claimed: when a revert worker has taken all its records, every
\* record it counted as changed is gone from the table and its path is owned
\* by that record's original_owner.
HasRow(st, id) == \E r \in st : r.id = id
C5_FailedRevertKeepsRecord ==
    [][/\ \A i \in 1..Len(pool) :
             (ItemStep(i) /\ pool[i].kind = "revert" /\ ~pool'[i].success) =>
                /\ pool'[i].tally.errors = pool[i].tally.errors + 1
                /\ pool'[i].tally.changed = pool[i].tally.changed
                /\ store' = store
                /\ owner' = owner
       /\ \A r \in store \ store' :
             \E i \in 1..Len(pool) :
                /\ ItemStep(i) /\ pool[i].kind = "revert"
                /\ pool'[i].success
                /\ ItemOf(i).id = r.id]_vars

\* A revert worker has just failed to set the owner of a record that is
\* still in the table.
C5_Witness ==
    \E i \in 1..Len(pool) :
       LET w == pool[i]
       IN  /\ w.kind = "revert" /\ w.idx > 0
           /\ ~w.success
           /\ w.tally.errors > 0
           /\ w.items[w.idx] \in store

\* C6: a revert of a record whose original owner an earlier revert has set
\* already performs no set-owner and counts no changed: it changes neither
\* owner nor table.
C6_NoSecondRestore ==
    [][\A i \in 1..Len(pool) :
          (/\ ItemStep(i) /\ pool[i].kind = "revert"
           /\ ItemOf(i).id \in restored) =>
             /\ ~pool'[i].success
             /\ pool'[i].tally.changed = pool[i].tally.changed
             /\ owner' = owner
             /\ store' = store]_vars

\* The rows of the paths the worker's items name.
RowsOf(path) == {r \in store : r.path = path}
NoFailure(w, call) == \A j \in 1..w.idx : <<j, call>> \notin w.errlog

\* C7: in a round trip, a change run in which every set-owner
\* succeeds ends with changed = number of paths and one row (B, A) per path,
\* and the revert run over all rows ends with every path owned by B and an
\* empty table.
C7_RoundTripAsClaimed ==
    \A i \in 1..Len(pool) :
       LET w == pool[i]
           N == Len(w.items)
       IN  /\ (/\ trip.phase = "change" /\ w.kind = "change" /\ LoopDone(w)
               /\ NoFailure(w, "set_owner")) =>
                 /\ w.tally.changed = N
                 /\ \A j \in 1..N :
                       RowsOf(w.items[j].path) \in
                          {{Row(id, w.items[j].path, trip.B, current_user)} :
                             id \in 1..nextId}
           /\ (trip.phase = "revert" /\ w.kind = "revert" /\ LoopDone(w)) =>
                 /\ store = {}
                 /\ \A j \in 1..N : owner[w.items[j].path] = trip.B

\* C8: a change item whose set-owner fails adds one to errors, none to
\* changed, inserts no row and leaves the path's owner as it was.
C8_FailedChangeLeavesNoTrace ==
    [][\A i \in 1..Len(pool) :
          (ItemStep(i) /\ pool[i].kind = "change" /\ ~pool'[i].success) =>
             /\ pool'[i].tally.errors = pool[i].tally.errors + 1
             /\ pool'[i].tally.changed = pool[i].tally.changed
             /\ store' = store
             /\ owner'[ItemOf(i).path] = owner[ItemOf(i).path]]_vars

\* A change worker has just failed to set the owner of a path that is not
\* owned by the acting identity and has no row.
C8_Witness ==
    \E i \in 1..Len(pool) :
       LET w == pool[i]
       IN  /\ w.kind = "change" /\ w.idx > 0
           /\ ~w.success
           /\ w.tally = Tally(0, 0, 1)
           /\ owner[w.items[w.idx].path] # current_user
           /\ RowsOf(w.items[w.idx].path) = {}

\* C9: between runs the table holds a row for a path exactly when a change
\* of that path succeeded and has not been reverted since.
C9_RecordIffUnreverted ==
    Quiescent =>
       {r.path : r \in store} = {c.path : c \in unreverted}

\* Everything a directory holds, at any depth.
RECURSIVE Contained(_)
Contained(p) ==
    Range(SubDirs(p)) \cup Range(FilesIn(p))
       \cup UNION {Contained(d) : d \in Range(SubDirs(p))}
\* The entries the collection of one root is to yield.
Entries(root) ==
    IF isfile(root) THEN {root}
    ELSE IF isdir(root) THEN {root} \cup Contained(root)
    ELSE {}

\* C11: the collection of a file root is that file; the collection of a
\* directory root is the root directory and everything it holds at any depth.
C11_CollectionHoldsRoots ==
    mainpc = "waitForDone" =>
       Range(all_paths) =
          UNION {Entries(root) : root \in Range(selected_files \o selected_folders)}

\* The step in which the call that started a run returns to the event loop:
\* check_ownership_info after waitForDone(), change_permissions and
\* initiate_revert_changes right after thread_pool.start(worker).
StartCallReturns ==
    mainpc' = "idle" /\ (mainpc = "waitForDone" \/ runs' # runs)

\* C12: when the call that starts a run returns, every worker of the run has
\* finished all its items and the counters reflect all the run's items.
C12_ReturnsAfterAllWork ==
    [][StartCallReturns =>
          /\ \A i \in 1..Len(pool') : pool'[i].run # runs'
          /\ labels' = emitted'
          /\ Sum3(emitted') = run_total']_vars

\* The paths of the workers i..n of a pool, one after the other.
RECURSIVE PathsOf(_, _)
PathsOf(p, i) ==
    IF i > Len(p) THEN <<>>
    ELSE [j \in 1..Len(p[i].items) |-> p[i].items[j].path] \o PathsOf(p, i + 1)

\* C13: a check run splits its N >= 1 paths into at most min(4, P)
\* contiguous chunks; each but the last has max(1, N div min(4, P)) paths and
\* the last has the remainder as well.
C13_ChunksAsSpecified ==
    [][(mainpc = "idle" /\ mainpc' = "waitForDone" /\ pool = <<>>) =>
          LET N == Len(all_paths')
              k == Min(PoolCap, maxThreadCount)
              size == Max(1, N \div k)
              count == Len(pool')
          IN  /\ count <= k
              /\ PathsOf(pool', 1) = all_paths'
              /\ \A c \in 1..(count - 1) : Len(pool'[c].items) = size
              /\ Len(pool'[count].items) = N - (count - 1) * size]_vars

\* C14: never more than min(4, P) workers execute at a time.
C14_AtMostFourWorkers ==
    Cardinality(Running) <= Min(PoolCap, maxThreadCount)

\* Items the run's workers have taken so far: those of the workers still in
\* the pool and those of the workers that have emitted their tally.
RECURSIVE TakenBy(_, _)
TakenBy(p, i) == IF i > Len(p) THEN 0 ELSE p[i].idx + TakenBy(p, i + 1)
Processed(p, sent) == TakenBy(p, 1) + Sum3(sent)
\* A worker posts a progress value in this step.
PostsProgress ==
    /\ Len(queue') = Len(queue) + 1
    /\ queue'[Len(queue')].type = "progress_update"

\* C15: within a run the progress value never goes down, it stays within
\* 0..100, and every value a worker reports is the percentage of the run's
\* items that all workers together have processed.
C15_ProgressIsCombinedPercentage ==
    [][/\ progress_bar' \in 0..100
       /\ runs' = runs => progress_bar' >= progress_bar
       /\ PostsProgress =>
             queue'[Len(queue')].value =
                (Processed(pool', emitted') * 100) \div run_total']_vars

\* C16: a worker of n items posts a progress value exactly after the items
\* whose index is a multiple of 500 and after item n, where the value is
\* 100; in a run over 1000 paths the values are posted at the run's item 500
\* and item 1000, rising to 100.
C16_ProgressAtFiveHundred ==
    [][/\ \A i \in 1..Len(pool) :
             ItemStep(i) =>
                LET idx == pool'[i].idx
                    n == Len(pool[i].items)
                IN  /\ PostsProgress <=> (idx % ProgressEvery = 0 \/ idx = n)
                    /\ idx = n => queue'[Len(queue')].value = 100
       /\ (PostsProgress /\ run_total = ScenarioPaths) =>
             LET done == Processed(pool', emitted')
             IN  /\ done \in {ProgressEvery, ScenarioPaths}
                 /\ queue'[Len(queue')].value = (done * 100) \div run_total]_vars

\* C17: the three counters are 0 when a run starts, and until the next run
\* starts none of them takes a value smaller than one it had before.
C17_CountersResetThenGrow ==
    [][/\ runs' # runs => labels' = Zero
       /\ runs' = runs =>
             /\ labels'.changed >= labels.changed
             /\ labels'.unchanged >= labels.unchanged
             /\ labels'.errors >= labels.errors]_vars

\* C18: in a check run a path whose owner query fails adds one to errors
\* and none to unchanged, a path whose query succeeds adds one to unchanged
\* whoever owns it, and changed stays 0.
C18_FailedQueryIsError ==
    [][\A i \in 1..Len(pool) :
          (ItemStep(i) /\ pool[i].kind = "check") =>
             LET before == pool[i].tally
                 after == pool'[i].tally
                 failed == <<pool'[i].idx, "get_owner">> \in pool'[i].errlog
             IN  /\ after.changed = 0
                 /\ failed => after = [before EXCEPT !.errors = @ + 1]
                 /\ ~failed => after = [before EXCEPT !.unchanged = @ + 1]]_vars

\* C19: a check run that follows a check run over the same paths ends with
\* the counters the first one ended with, however the workers finish.
C19_SecondCheckSameCounters ==
    (/\ Quiescent
     /\ history.last = "check" /\ history.before.kind = "check"
     /\ history.before.paths = all_paths) =>
        labels = history.before.counters

\* C20: while a worker of a run has not finished, the check, change and
\* revert buttons are disabled, and the workers in the pool are of one run.
C20_NoStartWhileRunning ==
    pool # <<>> =>
       /\ ~enabled.check /\ ~enabled.change /\ ~enabled.revert
       /\ \A i, j \in 1..Len(pool) : pool[i].run = pool[j].run

\* The signals posted in this step.
Posted ==
    IF Len(queue') > Len(queue)
    THEN SubSeq(queue', Len(queue) + 1, Len(queue'))
    ELSE <<>>
PostedOf(type) == {k \in 1..Len(Posted) : Posted[k].type = type}
\* Worker i leaves the pool in this step with items left, some of them done.
AbortsMidway(i) ==
    /\ pool' = Without(pool, i)
    /\ pool[i].idx > 0 /\ pool[i].idx < Len(pool[i].items)

\* C21: a worker that a fatal error stops in the middle of its items posts
\* error_occurred exactly once and still posts the counters it has
\* accumulated.
C21_AbortReportsCounters ==
    [][\A i \in 1..Len(pool) :
          AbortsMidway(i) =>
             /\ Cardinality(PostedOf("error_occurred")) = 1
             /\ \E k \in PostedOf("counters_update") :
                   Posted[k].tally = pool[i].tally]_vars

\* The line OwnershipChangeWorker.run sends to the log for an item
\* (log_message.emit, 221 and 225): the text without the path.
change_log_line(success, new_owner) ==
    IF success THEN <<"Ownership changed", new_owner>>
    ELSE <<"Failed to change owner">>
\* What the run reports for the item worker i takes in this step: its log
\* line and the counter it increments.
ReportsChanged(i) ==
    /\ change_log_line(pool'[i].success, pool'[i].seen)
          = <<"Ownership changed", pool'[i].seen>>
    /\ pool'[i].tally = [pool[i].tally EXCEPT !.changed = @ + 1]

\* C22: a change whose set-owner succeeds and whose insert fails is not
\* reported as a recorded change is: its log line or its counter differs.
C22_LostRecordIsReported ==
    [][\A i \in 1..Len(pool) :
          (/\ ItemStep(i) /\ pool[i].kind = "change" /\ pool'[i].success
           /\ <<pool'[i].idx, "record_change">> \in pool'[i].errlog) =>
             ~ReportsChanged(i)]_vars

\* A step of worker i: it stays in the pool and its locals change.
WorkerStep(i) == Len(pool') = Len(pool) /\ pool'[i] # pool[i]
\* The item's set-owner call was made: it succeeded or its failure is logged.
Attempted(w) == w.success \/ <<w.idx, "set_owner">> \in w.errlog

\* C23: a change worker takes its items one by one in list order and makes
\* one set-owner call for each, whatever happened to the items before; it
\* leaves the loop normally only after the last item.  An item touches the
\* owner of its own path only and removes or alters no row, and an item
\* whose set-owner fails changes no owner and no row at all.
C23_ItemsIndependent ==
    [][\A i \in 1..Len(pool) :
          /\ (WorkerStep(i) /\ pool[i].kind = "change") =>
                /\ ItemStep(i)
                /\ pool'[i].items = pool[i].items
                /\ Attempted(pool'[i])
                /\ \A p \in DOMAIN owner :
                      p # ItemOf(i).path => owner'[p] = owner[p]
                /\ store \subseteq store'
                /\ ~pool'[i].success => (owner' = owner /\ store' = store)
          /\ (/\ pool[i].kind = "change" /\ pool' = Without(pool, i)
              /\ PostedOf("error_occurred") = {}) =>
                LoopDone(pool[i])]_vars

\* A change worker has gone on after a failed item: its first item failed,
\* its second is changed and recorded.
C23_Witness ==
    \E i \in 1..Len(pool) :
       LET w == pool[i]
       IN  /\ w.kind = "change" /\ w.idx = 2
           /\ <<1, "set_owner">> \in w.errlog
           /\ w.success /\ w.tally = Tally(1, 0, 1)
           /\ RowsOf(w.items[2].path) # {}

\* C24: a DELETE that runs without error removes the rows of its id and no
\* other; for an id that is not in the table (never inserted, or deleted
\* before) it leaves the table as it is and the item is no error.
C24_DeleteIdempotent ==
    [][\A i \in 1..Len(pool) :
          (/\ ItemStep(i) /\ pool[i].kind = "revert" /\ pool'[i].success
           /\ <<pool'[i].idx, "delete">> \notin pool'[i].errlog) =>
             /\ store' = {r \in store : r.id # ItemOf(i).id}
             /\ ~HasRow(store', ItemOf(i).id)
             /\ ~HasRow(store, ItemOf(i).id) =>
                   /\ store' = store
                   /\ pool'[i].tally.errors = pool[i].tally.errors]_vars

\* A revert worker has run the DELETE of a row that was no longer in the
\* table, while another row was: the item is counted as changed and the
\* other row is still there.
C24_Witness ==
    \E i \in 1..Len(pool) :
       LET w == pool[i]
       IN  /\ w.kind = "revert" /\ w.idx > 0
           /\ w.success /\ w.rowcount = 0
           /\ <<w.idx, "delete">> \notin w.errlog
           /\ w.tally.changed > 0 /\ w.tally.errors = 0
           /\ store # {}

\* The kinds of the signals posted in this step, in the order of posting.
PostedTypes == [k \in 1..Len(Posted) |-> Posted[k].type]
\* The slot of ownership_change_finished runs in this step.
ReportStep ==
    /\ queue # <<>> /\ Head(queue).type = "ownership_change_finished"
    /\ queue' = Tail(queue)

\* C25: a change or revert worker that ends its run posts its counters, then
\* its completion status, then ownership_change_finished, once each and in
\* that order, and the report made on ownership_change_finished shows the
\* counters on display; a check worker never posts
\* ownership_change_finished.
C25_RunEmitsInOrder ==
    [][(\A i \in 1..Len(pool) :
           pool' = Without(pool, i) =>
              (IF pool[i].kind = "check"
               THEN PostedOf("ownership_change_finished") = {}
               ELSE /\ PostedTypes = <<"counters_update", "status_update",
                                       "ownership_change_finished">>
                    /\ Posted[1].tally = pool[i].tally))
       /\ (ReportStep => report' = labels')]_vars

\* The places (worker, position in its chunk) at which a pool holds path q.
PlacesOf(p, q) ==
    {<<i, j>> \in (1..Len(p)) \X (1..Len(all_paths')) :
        j <= Len(p[i].items) /\ p[i].items[j].path = q}

\* C26: the chunks of a check run are contiguous slices that follow one
\* another and together make up the collected sequence; every collected path
\* is in exactly one place of exactly one chunk; a worker takes its chunk in
\* order, one item per step, and leaves only when it has taken them all.
C26_EachPathQueriedOnce ==
    [][/\ (mainpc = "idle" /\ mainpc' = "waitForDone" /\ pool = <<>>) =>
             /\ PathsOf(pool', 1) = all_paths'
             /\ \A q \in Range(all_paths') :
                   Cardinality(PlacesOf(pool', q)) = 1
       /\ \A i \in 1..Len(pool) :
             pool[i].kind = "check" =>
                /\ (Len(pool') >= Len(pool) /\ pool'[i] # pool[i]) =>
                      ItemStep(i) /\ pool'[i].items = pool[i].items
                /\ pool' = Without(pool, i) => LoopDone(pool[i])]_vars

\* C27: every row a change worker inserts names as original_owner the owner
\* the path had right before the worker's set_owner call, whatever happened
\* to the path between the click that gathered the items and that call.
C27_OriginalOwnerIsOwnerBefore ==
    [][\A i \in 1..Len(pool) :
          (ItemStep(i) /\ pool[i].kind = "change") =>
             \A r \in store' \ store :
                r.original_owner = owner[ItemOf(i).path]]_vars

\* A change or revert worker is in the pool.
Mutating == \E i \in 1..Len(pool) : pool[i].kind \in {"change", "revert"}

\* C28: every change or revert run that is started leads to the slot of
\* ownership_change_finished, which makes the report and enables every
\* button, also when the worker is stopped by a fatal error.
C28_RunLeadsToReport ==
    Mutating ~> (enabled = AllButtons(TRUE))

\* A step of the check run in the GUI thread: the start up to waitForDone()
\* or the return from it, with populate_ownership_list.
CheckCallStep == mainpc' # mainpc

\* C29: no step of a check run, in the GUI thread or in a worker, changes an
\* owner or the table; an item of a change run only adds rows, with ids the
\* table did not hold, and an item of a revert run only removes the row of
\* its record; no step ever changes a row that stays in the table.
C29_RunsKeepTheRest ==
    [][/\ CheckCallStep => owner' = owner /\ store' = store
       /\ \A i \in 1..Len(pool) :
             ItemStep(i) =>
                /\ pool[i].kind = "check" => owner' = owner /\ store' = store
                /\ pool[i].kind = "change" =>
                      /\ store \subseteq store'
                      /\ \A r \in store' \ store : ~HasRow(store, r.id)
                /\ pool[i].kind = "revert" =>
                      /\ store' \subseteq store
                      /\ \A r \in store \ store' : r.id = ItemOf(i).id
       /\ \A r \in store : \A t \in store' : r.id = t.id => r = t]_vars

\* A check worker has queried an item, and a change worker has added a row
\* for a path to a table that held a row for that path already.
C29_Witness ==
    /\ \E i \in 1..Len(pool) : pool[i].kind = "check" /\ pool[i].idx > 0
    /\ \E r, t \in store : r.path = t.path /\ r.id # t.id

=============================================================================
